---- MODULE Spec2Model ----
(***************************************************************************)
(* A model of SmartSim's PBSOrchestrator (database topology composer) and  *)
(* Ensemble (ensemble composer).                                           *)
(*                                                                         *)
(* Python values are records tagged with their Python type; a Python str   *)
(* that the code transforms (host names) is the tuple of the code points   *)
(* of its characters, so that str.strip() is computed and not assumed.     *)
(***************************************************************************)
EXTENDS Integers, Sequences, FiniteSets, TLC

VARIABLES
    orc,      \* the PBSOrchestrator object under construction / constructed
    call,     \* the last PBSOrchestrator call: operation, arguments, exception raised
    ncalls,   \* number of mutator calls made on the constructed PBSOrchestrator
    ens,      \* the Ensemble object under construction / constructed
    ecall,    \* the last Ensemble call: operation, arguments, exception raised
    necalls   \* number of calls made on the constructed Ensemble

vars == <<orc, call, ncalls, ens, ecall, necalls>>

-----------------------------------------------------------------------------
(* Bounds of the model *)

MaxNodes == 3
MaxHostList == 2
MaxCalls == 1
MaxValues == 2
MaxResults == 2
MaxReplicas == 2
MaxEnsCalls == 3

-----------------------------------------------------------------------------
(* Python values *)

PyNone == [type |-> "NoneType"]
PyInt(n) == [type |-> "int", n |-> n]
PyStr(s) == [type |-> "str", s |-> s]
PyList(items) == [type |-> "list", items |-> items]
PyDict(pairs) == [type |-> "dict", pairs |-> pairs]

\* bool(v) for the value shapes above
Truthy(v) ==
    CASE v.type = "NoneType" -> FALSE
      [] v.type = "int" -> v.n # 0
      [] v.type = "str" -> v.s # <<>>
      [] v.type = "list" -> v.items # <<>>
      [] v.type = "dict" -> v.pairs # <<>>
      [] OTHER -> TRUE

SeqUpTo(S, n) == UNION {[1..k -> S] : k \in 0..n}

Min(a, b) == IF a <= b THEN a ELSE b

\* the code points of the characters Python takes for whitespace (str.isspace)
Whitespace ==
    {9, 10, 11, 12, 13, 28, 29, 30, 31, 32, 133, 160, 5760}
        \cup (8192..8202) \cup {8232, 8233, 8239, 8287, 12288}

\* str.lstrip(), str.rstrip() and str.strip() on a tuple of code points
RECURSIVE lstrip(_)
lstrip(s) == IF s # <<>> /\ Head(s) \in Whitespace THEN lstrip(Tail(s)) ELSE s

RECURSIVE rstrip(_)
rstrip(s) ==
    IF s # <<>> /\ s[Len(s)] \in Whitespace
    THEN rstrip(SubSeq(s, 1, Len(s) - 1))
    ELSE s

strip(s) == rstrip(lstrip(s))

\* exceptions: the Python exception type and its message, as a word sequence
NoError == [type |-> "none", msg |-> <<>>]
Error(t, m) == [type |-> t, msg |-> m]

-----------------------------------------------------------------------------
(* Inputs of the PBSOrchestrator calls *)

Ports == {6379, 6780}
NodeCounts == 1..MaxNodes
RunCommands == {"aprun", "mpirun", "srun"}
Times == {PyNone, PyStr("01:00:00")}
Walltimes == {"10:00:00"}
BatchArgNames == {"A"}
BatchArgValues == {PyNone, PyStr("acct")}
CpuCounts == {PyInt(2)}

\* the run_args keyword: not given, or a dict of the caller
Absent == [type |-> "absent"]
RunArgsArgs == {Absent, PyDict(<< <<"N", PyInt(1)>> >>)}
RunArgKeys == {"x"}
RunArgValues == {PyInt(2)}

\* the host names "n1" and "n2", and "n1" with whitespace around it: "\tn1 \n"
HostN1 == <<110, 49>>
HostN2 == <<110, 50>>
HostN1Padded == <<9, 110, 49, 32, 10>>

HostItems == {PyStr(HostN1), PyStr(HostN2), PyInt(5)}
HostArgs ==
    {PyNone, PyInt(5), PyStr(<<>>), PyStr(HostN1Padded), PyStr(HostN2)}
        \cup {PyList(l) : l \in SeqUpTo(HostItems, MaxHostList)}

-----------------------------------------------------------------------------
(* Collaborators of PBSOrchestrator that are not part of the sources at hand *)

OrcName == "orchestrator"
OrcPath == "cwd"

\* Orchestrator._get_cluster_args(name, port)
get_cluster_args(name, port) ==
    << "--cluster-enabled yes", "--cluster-config-file",
       "nodes-" \o name \o "-" \o ToString(port) \o ".conf" >>

\* a dict object: oid is the identity of the object, so that two holders of the same
\* oid hold the same object and a write through one is seen through the other
DictObject(oid, d) == [type |-> "dict", oid |-> oid, pairs |-> d.pairs]

\* the oid of the dict the caller passed as run_args
CallerOid == 0

\* AprunSettings(exe, exe_args, run_args) / MpirunSettings(exe, exe_args, run_args):
\* the settings keep the run_args object they are given
NewRunSettings(family, exe, exe_args, run_args) ==
    [ family |-> family, exe |-> exe, exe_args |-> exe_args, run_args |-> run_args,
      tasks |-> PyNone, tasks_per_node |-> PyNone, cpus_per_task |-> PyNone,
      hostlist |-> PyNone ]

\* QsubBatchSettings(nodes, ncpus, time, queue, account)
NewQsubBatchSettings(nodes, ncpus, time, queue, account) ==
    [ type |-> "QsubBatchSettings", nodes |-> nodes, ncpus |-> ncpus, time |-> time,
      queue |-> queue, account |-> account, hostlist |-> PyNone, batch_args |-> <<>> ]

\* DBNode(name, path, run_settings, ports)
NewDBNode(name, path, run_settings, ports) ==
    [ name |-> name, path |-> path, run_settings |-> run_settings, ports |-> ports,
      host |-> PyNone ]

\* dict item assignment d[k] = v on an insertion-ordered list of <<key, value>> pairs
RECURSIVE DictSet(_, _, _)
DictSet(pairs, k, v) ==
    IF pairs = <<>> THEN << <<k, v>> >>
    ELSE IF Head(pairs)[1] = k THEN << <<k, v>> >> \o Tail(pairs)
    ELSE <<Head(pairs)>> \o DictSet(Tail(pairs), k, v)

\* Orchestrator.__init__ / EntityList.__init__ before _initialize_entities runs;
\* run_command and run_args are the keyword arguments handed on to it
NewOrchestrator(batch_flag, run_command, run_args) ==
    [ status |-> "constructing", name |-> OrcName, path |-> OrcPath,
      batch |-> batch_flag, run_command |-> run_command,
      run_args |-> IF run_args = Absent THEN Absent
                   ELSE DictObject(CallerOid, run_args),
      entities |-> <<>>, ports |-> <<>>, batch_settings |-> PyNone ]

NoOrchestrator ==
    [ status |-> "none", name |-> OrcName, path |-> OrcPath,
      batch |-> FALSE, run_command |-> "aprun", run_args |-> Absent,
      entities |-> <<>>, ports |-> <<>>, batch_settings |-> PyNone ]

-----------------------------------------------------------------------------
(* PBSOrchestrator *)

\* kwargs.get("run_args", {}): the caller's dict, or else a new empty dict, whose
\* identity is fresh
kwargs_get_run_args(run_args, fresh) ==
    IF run_args = Absent THEN DictObject(fresh, PyDict(<<>>)) ELSE run_args

build_aprun_settings(exe, exe_args, run_args) ==
    [NewRunSettings("aprun", exe, exe_args, run_args) EXCEPT
        !.tasks = PyInt(1), !.tasks_per_node = PyInt(1)]

\* mutant: mpirun settings get the tasks-per-node setting of aprun as well
Mut_build_mpirun_settings_per_node(exe, exe_args, run_args) ==
    [NewRunSettings("mpirun", exe, exe_args, run_args) EXCEPT
        !.tasks = PyInt(1), !.tasks_per_node = PyInt(1)]

build_mpirun_settings(exe, exe_args, run_args) ==
    [NewRunSettings("mpirun", exe, exe_args, run_args) EXCEPT !.tasks = PyInt(1)]

\* the settings built, or the exception raised; fresh is the identity of the dict
\* that is created when no run_args were given
build_run_settings(exe, exe_args, run_command, run_args, fresh) ==
    IF run_command = "aprun"
    THEN [raised |-> NoError,
          settings |-> build_aprun_settings(exe, exe_args,
                                            kwargs_get_run_args(run_args, fresh))]
    ELSE IF run_command = "mpirun"
    THEN [raised |-> NoError,
          settings |-> build_mpirun_settings(exe, exe_args,
                                             kwargs_get_run_args(run_args, fresh))]
    ELSE [raised |-> Error("SSUnsupportedError",
                       <<"PBSOrchestrator does not support", run_command,
                         "as a launch binary">>),
          settings |-> PyNone]

build_batch_settings(db_nodes, batch_flag, account, time, queue) ==
    IF batch_flag
    THEN NewQsubBatchSettings(db_nodes, PyInt(1), time, queue, account)
    ELSE PyNone

\* mutant: clustering starts one node too late
Mut_cluster_of(db_nodes) == db_nodes > 3

cluster_of(db_nodes) == ~(db_nodes < 3)

node_exe_args(name, db_nodes, port) ==
    LET base == <<"db_conf", "ai_module", "ip_module", "--port", ToString(port)>>
    IN  IF cluster_of(db_nodes) THEN base \o get_cluster_args(name, port) ELSE base

db_node_name(name, db_id) == name \o "_" \o ToString(db_id)

\* the loop of _initialize_entities from iteration db_id onwards, on object o
RECURSIVE build_nodes(_, _, _, _)
build_nodes(o, db_id, db_nodes, port) ==
    IF db_id >= db_nodes
    THEN [raised |-> NoError, obj |-> [o EXCEPT !.ports = <<port>>]]
    ELSE LET name == db_node_name(o.name, db_id)
             rs == build_run_settings("redis_exe", node_exe_args(name, db_nodes, port),
                                      o.run_command, o.run_args, db_id + 1)
         IN  IF rs.raised # NoError
             THEN [raised |-> rs.raised, obj |-> o]
             ELSE build_nodes(
                      [o EXCEPT !.entities =
                          Append(@, NewDBNode(name, o.path, rs.settings, <<port>>))],
                      db_id + 1, db_nodes, port)

\* mutant: the size-2 check is missing
Mut_initialize_entities_no_size_check(o, db_nodes, port) ==
    build_nodes(o, 0, db_nodes, port)

PBSOrchestrator_initialize_entities(o, db_nodes, port) ==
    IF db_nodes = 2
    THEN [raised |-> Error("SSUnsupportedError",
                       <<"PBSOrchestrator does not support clusters of size 2">>),
          obj |-> o]
    ELSE build_nodes(o, 0, db_nodes, port)

\* mutant: only the first element of the list is type-checked
Mut_IsStrList_first_only(v) ==
    /\ v.type = "list"
    /\ (v.items = <<>> \/ v.items[1].type = "str")

IsStrList(v) ==
    /\ v.type = "list"
    /\ \A i \in 1..Len(v.items) : v.items[i].type = "str"

\* mutant: the per-node host list is set whatever the family and batch mode
Mut_set_host_on_node_always(db, host, batch_flag) ==
    [db EXCEPT !.host = host, !.run_settings.hostlist = PyList(<<host>>)]

\* one iteration of the zip loop of set_hosts on node db with its host
set_host_on_node(db, host, batch_flag) ==
    LET d1 == [db EXCEPT !.host = host]
    IN  IF db.run_settings.family = "aprun"
        THEN IF ~batch_flag
             THEN [d1 EXCEPT !.run_settings.hostlist = PyList(<<host>>)]
             ELSE d1
        ELSE [d1 EXCEPT !.run_settings.hostlist = PyList(<<host>>)]

\* mutant: the length check that the code leaves as a TODO is made
Mut_set_hosts_on_length_checked(o, host_list_arg) ==
    LET host_list == IF host_list_arg.type = "str"
                     THEN PyList(<<PyStr(strip(host_list_arg.s))>>)
                     ELSE host_list_arg
    IN  IF host_list.type # "list"
        THEN [raised |-> Error("TypeError",
                           <<"host_list argument must be a list of strings">>),
              obj |-> o]
        ELSE IF ~IsStrList(host_list)
        THEN [raised |-> Error("TypeError",
                           <<"host_list argument must be list of strings">>),
              obj |-> o]
        ELSE IF Len(host_list.items) # Len(o.entities)
        THEN [raised |-> Error("ValueError",
                           <<"host_list argument must have one host per node">>),
              obj |-> o]
        ELSE LET o1 == IF o.batch
                       THEN [o EXCEPT !.batch_settings.hostlist = host_list]
                       ELSE o
             IN  [raised |-> NoError,
                  obj |-> [o1 EXCEPT !.entities =
                      [i \in 1..Len(o.entities) |->
                          set_host_on_node(o.entities[i], host_list.items[i], o.batch)]]]

\* set_hosts on object o: the exception raised and the object afterwards
set_hosts_on(o, host_list_arg) ==
    LET host_list == IF host_list_arg.type = "str"
                     THEN PyList(<<PyStr(strip(host_list_arg.s))>>)
                     ELSE host_list_arg
    IN  IF host_list.type # "list"
        THEN [raised |-> Error("TypeError",
                           <<"host_list argument must be a list of strings">>),
              obj |-> o]
        ELSE IF ~IsStrList(host_list)
        THEN [raised |-> Error("TypeError",
                           <<"host_list argument must be list of strings">>),
              obj |-> o]
        ELSE LET o1 == IF o.batch
                       THEN [o EXCEPT !.batch_settings.hostlist = host_list]
                       ELSE o
                 k == Min(Len(host_list.items), Len(o.entities))
             IN  [raised |-> NoError,
                  obj |-> [o1 EXCEPT !.entities =
                      [i \in 1..Len(o.entities) |->
                          IF i <= k
                          THEN set_host_on_node(o.entities[i], host_list.items[i], o.batch)
                          ELSE o.entities[i]]]]

\* mutant: tests "hosts is None" instead of the truth value of hosts
Mut_hosts_required_is_none(hosts, run_command) ==
    hosts = PyNone /\ run_command = "mpirun"

\* the elif of __init__: no hosts given and the launch binary is mpirun
hosts_required(hosts, run_command) == ~Truthy(hosts) /\ run_command = "mpirun"

\* PBSOrchestrator(port, db_nodes, batch, hosts, run_command, time=time[, run_args=run_args])
PBSOrchestrator_init(port, db_nodes, batch_flag, hosts, run_command, time, run_args) ==
    /\ orc.status = "none"
    /\ LET args == [port |-> port, db_nodes |-> db_nodes, batch |-> batch_flag,
                    hosts |-> hosts, run_command |-> run_command, time |-> time,
                    run_args |-> run_args]
           e == PBSOrchestrator_initialize_entities(
                    NewOrchestrator(batch_flag, run_command, run_args), db_nodes, port)
           o1 == [e.obj EXCEPT !.batch_settings =
                     build_batch_settings(db_nodes, batch_flag, PyNone, time, PyNone)]
           h == set_hosts_on(o1, hosts)
           done(o, raised) ==
               /\ orc' = [o EXCEPT !.status = IF raised = NoError THEN "ok" ELSE "raised"]
               /\ call' = [op |-> "__init__", args |-> args, raised |-> raised]
       IN  IF e.raised # NoError THEN done(e.obj, e.raised)
           ELSE IF Truthy(hosts) THEN done(h.obj, h.raised)
           ELSE IF hosts_required(hosts, run_command)
           THEN done(o1, Error("SmartSimError",
                    <<"hosts argument is required when launching PBSOrchestrator with OpenMPI">>))
           ELSE done(o1, NoError)
    /\ UNCHANGED <<ncalls, ens, ecall, necalls>>

CanCall == orc.status = "ok" /\ ncalls < MaxCalls

set_hosts(host_list) ==
    /\ CanCall
    /\ LET r == set_hosts_on(orc, host_list)
       IN  /\ orc' = r.obj
           /\ call' = [op |-> "set_hosts", args |-> [host_list |-> host_list],
                       raised |-> r.raised]
    /\ ncalls' = ncalls + 1
    /\ UNCHANGED <<ens, ecall, necalls>>

\* mutant: without batch the call is silently ignored instead of raising
Mut_set_walltime_silent(walltime) ==
    /\ CanCall
    /\ orc' = IF orc.batch THEN [orc EXCEPT !.batch_settings.time = PyStr(walltime)]
              ELSE orc
    /\ call' = [op |-> "set_walltime", args |-> [walltime |-> walltime],
                raised |-> NoError]
    /\ ncalls' = ncalls + 1
    /\ UNCHANGED <<ens, ecall, necalls>>

set_walltime(walltime) ==
    /\ CanCall
    /\ IF ~orc.batch
       THEN /\ orc' = orc
            /\ call' = [op |-> "set_walltime", args |-> [walltime |-> walltime],
                        raised |-> Error("SmartSimError",
                            <<"Not running in batch, cannot set walltime">>)]
       ELSE /\ orc' = [orc EXCEPT !.batch_settings.time = PyStr(walltime)]
            /\ call' = [op |-> "set_walltime", args |-> [walltime |-> walltime],
                        raised |-> NoError]
    /\ ncalls' = ncalls + 1
    /\ UNCHANGED <<ens, ecall, necalls>>

set_batch_arg(arg, value) ==
    /\ CanCall
    /\ IF ~orc.batch
       THEN /\ orc' = orc
            /\ call' = [op |-> "set_batch_arg", args |-> [arg |-> arg, value |-> value],
                        raised |-> Error("SmartSimError",
                            <<"Not running as batch, cannot set batch_arg">>)]
       ELSE /\ orc' = [orc EXCEPT !.batch_settings.batch_args = DictSet(@, arg, value)]
            /\ call' = [op |-> "set_batch_arg", args |-> [arg |-> arg, value |-> value],
                        raised |-> NoError]
    /\ ncalls' = ncalls + 1
    /\ UNCHANGED <<ens, ecall, necalls>>

set_cpus(num_cpus) ==
    /\ CanCall
    /\ LET o1 == IF orc.batch
                 THEN [orc EXCEPT !.batch_settings.ncpus = num_cpus]
                 ELSE orc
       IN  orc' = [o1 EXCEPT !.entities =
                      [i \in 1..Len(orc.entities) |->
                          [orc.entities[i] EXCEPT !.run_settings.cpus_per_task = num_cpus]]]
    /\ call' = [op |-> "set_cpus", args |-> [num_cpus |-> num_cpus], raised |-> NoError]
    /\ ncalls' = ncalls + 1
    /\ UNCHANGED <<ens, ecall, necalls>>

\* a write through one holder of the dict object oid: every holder sees it
write_run_arg(holder, oid, key, value) ==
    IF holder.oid = oid THEN [holder EXCEPT !.pairs = DictSet(@, key, value)]
    ELSE holder

\* orc.entities[node - 1].run_settings.run_args[key] = value
set_run_arg(node, key, value) ==
    /\ CanCall
    /\ node <= Len(orc.entities)
    /\ LET oid == orc.entities[node].run_settings.run_args.oid
       IN  orc' = [orc EXCEPT
                      !.run_args = IF @ = Absent THEN @
                                   ELSE write_run_arg(@, oid, key, value),
                      !.entities =
                          [i \in 1..Len(orc.entities) |->
                              [orc.entities[i] EXCEPT !.run_settings.run_args =
                                  write_run_arg(@, oid, key, value)]]]
    /\ call' = [op |-> "set_run_arg",
                args |-> [node |-> node, key |-> key, value |-> value],
                raised |-> NoError]
    /\ ncalls' = ncalls + 1
    /\ UNCHANGED <<ens, ecall, necalls>>

-----------------------------------------------------------------------------
(* Inputs of the Ensemble calls *)

EnsName == "exp"
EnsPath == "cwd"

Scalars == {PyInt(5), PyInt(6)}
ParamValues ==
    {PyList(l) : l \in SeqUpTo(Scalars, MaxValues)}
        \cup {PyInt(5), PyDict(<<>>), PyList(<<PyDict(<<>>)>>)}
ParamArgs ==
    {PyNone, PyDict(<<>>)}
        \cup {PyDict(<< <<"h", v>> >>) : v \in ParamValues}
        \cup {PyDict(<< <<"h", v>>, <<"g", w>> >>) : v \in ParamValues, w \in ParamValues}

RunSettingsArgs == {PyNone, [type |-> "RunSettings", exe |-> "python"]}
BatchSettingsArgs == {PyNone, [type |-> "BatchSettings", batch_cmd |-> "qsub"]}
ReplicaArgs == {PyNone} \cup {PyInt(n) : n \in 0..MaxReplicas}
ModelCounts == {1, 2}

\* what a user-supplied callable may return: a non-list, or a list whose elements
\* are assignment mappings or something else
UserResultItems ==
    { PyDict(<< <<"h", PyInt(5)>> >>), PyDict(<< <<"h", PyInt(6)>> >>), PyList(<<>>) }
UserResults ==
    {PyInt(-1)} \cup {PyList(l) : l \in SeqUpTo(UserResultItems, MaxResults)}

\* perm_strat together with the strategy options passed through **kwargs
StrategyArgs ==
    { [kind |-> "name", name |-> n, n_models |-> PyNone] :
          n \in {"all_perm", "step", "stepped", "not-a-strategy"} }
        \cup { [kind |-> "name", name |-> "random", n_models |-> PyInt(k)] :
                   k \in ModelCounts }
        \cup { [kind |-> "callable", name |-> "user_strategy", n_models |-> PyNone,
                result |-> r] : r \in UserResults }

\* the compositions that the calls on a constructed ensemble start from
OpsParamArgs ==
    {PyDict(<<>>), PyDict(<< <<"h", PyInt(5)>> >>)}
        \cup {PyDict(<< <<"h", PyList(l)>> >>) : l \in [1..MaxValues -> Scalars]}
OpsReplicaArgs == {PyNone, PyInt(MaxReplicas)}
OpsStrategyArgs == {[kind |-> "name", name |-> "all_perm", n_models |-> PyNone]}

\* names and parameters of the models a caller builds and adds
AddNames == {"exp_0", "model"}
AddParams == {PyDict(<< <<"h", PyInt(5)>> >>), PyDict(<< <<"z", PyInt(6)>> >>)}
NonModels == {PyInt(5), PyStr(<<"model">>)}

\* the entities registered as incoming entities
IncomingEntities == {[type |-> "Model", name |-> "other"], [type |-> "Model", name |-> "peer"]}

-----------------------------------------------------------------------------
(* Collaborators of Ensemble that are not part of the sources at hand *)

\* init_default(default, init_value, expected_type)
init_default(default, init_value) ==
    IF init_value = PyNone THEN default ELSE init_value

\* Model(name, params, path, run_settings)
NewModel(name, params, path, run_settings) ==
    [ type |-> "Model", name |-> name, params |-> params, path |-> path,
      run_settings |-> run_settings, key_prefixing |-> FALSE,
      incoming_entities |-> <<>> ]

\* Model.enable_key_prefixing()
Model_enable_key_prefixing(model) == [model EXCEPT !.key_prefixing = TRUE]

\* Model.register_incoming_entity(incoming_entity): the entity is recorded, unless
\* one of its name is recorded already
Model_register_incoming_entity(model, incoming_entity) ==
    IF \E i \in 1..Len(model.incoming_entities) :
           model.incoming_entities[i].name = incoming_entity.name
    THEN [raised |-> Error("SmartSimError",
                       <<incoming_entity.name,
                         "has already been registered as an incoming entity">>),
          model |-> model]
    ELSE [raised |-> NoError,
          model |-> [model EXCEPT !.incoming_entities = Append(@, incoming_entity)]]

\* Model.query_key_prefixing()
Model_query_key_prefixing(model) == model.key_prefixing

\* copy.deepcopy of a value
deepcopy(v) == v

\* s1 \o s2 \o ... for a sequence of sequences
RECURSIVE Flatten(_)
Flatten(ss) == IF ss = <<>> THEN <<>> ELSE Head(ss) \o Flatten(Tail(ss))

\* itertools.product(*lists): the last list varies fastest
RECURSIVE Product(_)
Product(lists) ==
    IF lists = <<>> THEN << <<>> >>
    ELSE LET rest == Product(Tail(lists))
             hd == Head(lists)
         IN  Flatten([i \in 1..Len(hd) |->
                 [j \in 1..Len(rest) |-> <<hd[i]>> \o rest[j]]])

\* dict(zip(names, values))
ZipDict(names, values) ==
    PyDict([i \in 1..Min(Len(names), Len(values)) |-> <<names[i], values[i]>>])

RECURSIVE MinLen(_)
MinLen(lists) ==
    IF Len(lists) = 1 THEN Len(Head(lists))
    ELSE Min(Len(Head(lists)), MinLen(Tail(lists)))

\* strategies.create_all_permutations(names, values)
create_all_permutations(names, values) ==
    LET perms == Product([i \in 1..Len(values) |-> values[i].items])
    IN  PyList([i \in 1..Len(perms) |-> ZipDict(names, perms[i])])

\* strategies.step_values(names, values)
step_values(names, values) ==
    LET n == MinLen([i \in 1..Len(values) |-> values[i].items])
    IN  PyList([i \in 1..n |->
            ZipDict(names, [j \in 1..Len(values) |-> values[j].items[i]])])

\* strategies.random_permutations(names, values, n_models): every list of n_models
\* assignments, each drawing one value from each list
random_permutations(names, values, n_models) ==
    LET perms == Product([i \in 1..Len(values) |-> values[i].items])
    IN  IF perms = <<>>
        THEN {[raised |-> Error("IndexError", <<"Cannot choose from an empty sequence">>),
               value |-> PyNone]}
        ELSE {[raised |-> NoError,
               value |-> PyList([i \in 1..n_models |-> ZipDict(names, perms[pick[i]])])] :
                 pick \in [1..n_models -> 1..Len(perms)]}

\* the outcomes of strategy(names, values, **kwargs)
StrategyOutcomes(strategy, names, values) ==
    CASE strategy.fn = "create_all_permutations" ->
             {[raised |-> NoError, value |-> create_all_permutations(names, values)]}
      [] strategy.fn = "step_values" ->
             {[raised |-> NoError, value |-> step_values(names, values)]}
      [] strategy.fn = "random_permutations" ->
             random_permutations(names, values, strategy.n_models.n)
      [] OTHER -> {[raised |-> NoError, value |-> strategy.result]}

NoEnsemble == [status |-> "none"]

-----------------------------------------------------------------------------
(* Ensemble *)

\* the strategy function resolved, or the exception raised
set_strategy(strategy) ==
    IF strategy.kind = "name" /\ strategy.name = "all_perm"
    THEN [raised |-> NoError,
          strategy |-> [fn |-> "create_all_permutations", n_models |-> strategy.n_models]]
    ELSE IF strategy.kind = "name" /\ strategy.name = "step"
    THEN [raised |-> NoError,
          strategy |-> [fn |-> "step_values", n_models |-> strategy.n_models]]
    ELSE IF strategy.kind = "name" /\ strategy.name = "random"
    THEN [raised |-> NoError,
          strategy |-> [fn |-> "random_permutations", n_models |-> strategy.n_models]]
    ELSE IF strategy.kind = "callable"
    THEN [raised |-> NoError,
          strategy |-> [fn |-> strategy.name, n_models |-> strategy.n_models,
                        result |-> strategy.result]]
    ELSE [raised |-> Error("SSUnsupportedError",
                       <<"Permutation", "strategy", "given", "is", "not", "supported:",
                         strategy.name>>),
          strategy |-> PyNone]

\* mutant: a dict is taken for a scalar too
Mut_is_int_or_str_or_dict(val) == val.type \in {"int", "str", "dict"}

\* isinstance(val, (int, str))
is_int_or_str(val) == val.type \in {"int", "str"}

\* the loop of _read_model_parameters from the i-th item of self.params onwards
RECURSIVE read_params_from(_, _, _, _)
read_params_from(pairs, i, param_names, parameters) ==
    IF i > Len(pairs)
    THEN [raised |-> NoError, names |-> param_names, values |-> parameters]
    ELSE LET name == pairs[i][1]
             val == pairs[i][2]
         IN  IF val.type = "list"
             THEN read_params_from(pairs, i + 1, Append(param_names, name),
                                   Append(parameters, val))
             ELSE IF is_int_or_str(val)
             THEN read_params_from(pairs, i + 1, Append(param_names, name),
                                   Append(parameters, PyList(<<val>>)))
             ELSE [raised |-> Error("TypeError",
                               <<"Incorrect type for ensemble parameters",
                                 "Must be list, int, or string.">>),
                   names |-> Append(param_names, name), values |-> parameters]

read_model_parameters(e) ==
    IF e.params.type # "dict"
    THEN [raised |-> Error("TypeError",
                       <<"Ensemble initialization argument 'params' must be of type dict">>),
          names |-> <<>>, values |-> <<>>]
    ELSE read_params_from(e.params.pairs, 1, <<>>, <<>>)

\* mutant: membership compares the whole model, not its name
Mut_add_model_on_by_value(e, model) ==
    IF model.type # "Model"
    THEN [raised |-> Error("TypeError",
                       <<"Argument to add_model was of type", model.type, "not Model">>),
          obj |-> e]
    ELSE IF \E i \in 1..Len(e.entities) : e.entities[i] = model
    THEN [raised |-> Error("EntityExistsError",
                       <<"Model", model.name, "already exists in ensemble", e.name>>),
          obj |-> e]
    ELSE [raised |-> NoError, obj |-> [e EXCEPT !.entities = Append(@, model)]]

\* Ensemble.add_model(model) on object e
add_model_on(e, model) ==
    IF model.type # "Model"
    THEN [raised |-> Error("TypeError",
                       <<"Argument to add_model was of type", model.type, "not Model">>),
          obj |-> e]
    ELSE IF \E i \in 1..Len(e.entities) : e.entities[i].name = model.name
    THEN [raised |-> Error("EntityExistsError",
                       <<"Model", model.name, "already exists in ensemble", e.name>>),
          obj |-> e]
    ELSE [raised |-> NoError, obj |-> [e EXCEPT !.entities = Append(@, model)]]

\* mutant: members are numbered from 1
Mut_model_name_of_one_based(name, i) == name \o "_" \o ToString(i + 1)

model_name_of(name, i) == name \o "_" \o ToString(i)

\* mutant: a list is accepted as a parameter set too
Mut_is_param_set_lenient(param_set) == param_set.type \in {"dict", "list"}

\* isinstance(param_set, dict)
is_param_set(param_set) == param_set.type = "dict"

\* the loop over enumerate(all_model_params) from index i (0-based) onwards
RECURSIVE build_param_models(_, _, _, _)
build_param_models(e, strategy, items, i) ==
    IF i >= Len(items) THEN [raised |-> NoError, obj |-> e]
    ELSE LET param_set == items[i + 1]
         IN  IF ~is_param_set(param_set)
             THEN [raised |-> Error("UserStrategyError", <<strategy.fn>>), obj |-> e]
             ELSE LET model == Model_enable_key_prefixing(
                                   NewModel(model_name_of(e.name, i), param_set, e.path,
                                            deepcopy(e.run_settings)))
                      a == add_model_on(e, model)
                  IN  IF a.raised # NoError THEN a
                      ELSE build_param_models(a.obj, strategy, items, i + 1)

\* the loop over range(replicas) from index i onwards
RECURSIVE build_replicas(_, _, _)
build_replicas(e, replicas, i) ==
    IF i >= replicas THEN [raised |-> NoError, obj |-> e]
    ELSE LET model == Model_enable_key_prefixing(
                          NewModel(model_name_of(e.name, i), PyDict(<<>>), e.path,
                                   deepcopy(e.run_settings)))
             a == add_model_on(e, model)
         IN  IF a.raised # NoError THEN a
             ELSE build_replicas(a.obj, replicas, i + 1)

\* the branch of _initialize_entities taken when self.params is non-empty
initialize_with_params(e, strategy) ==
    IF Truthy(e.run_settings)
    THEN LET p == read_model_parameters(e)
         IN  IF p.raised # NoError THEN {[raised |-> p.raised, obj |-> e]}
             ELSE { IF r.raised # NoError THEN [raised |-> r.raised, obj |-> e]
                    ELSE IF r.value.type # "list"
                    THEN [raised |-> Error("UserStrategyError", <<strategy.fn>>),
                          obj |-> e]
                    ELSE build_param_models(e, strategy, r.value.items, 0) :
                      r \in StrategyOutcomes(strategy, p.names, p.values) }
    ELSE {[raised |-> Error("SmartSimError",
              <<"Ensembles supplied with 'params' argument must be provided run settings">>),
           obj |-> e]}

\* mutant: the batch settings test is inverted
Mut_initialize_without_params_inverted(e, replicas) ==
    IF Truthy(e.run_settings)
    THEN IF Truthy(replicas)
         THEN {build_replicas(e, replicas.n, 0)}
         ELSE {[raised |-> Error("SmartSimError",
                   <<"Ensembles without 'params' or 'replicas' argument to expand into members cannot be given run settings">>),
                obj |-> e]}
    ELSE IF Truthy(e.batch_settings)
    THEN {[raised |-> Error("SmartSimError",
              <<"Ensemble must be provided batch settings or run settings">>),
           obj |-> e]}
    ELSE {[raised |-> NoError, obj |-> e]}

\* the branch of _initialize_entities taken when self.params is empty
initialize_without_params(e, replicas) ==
    IF Truthy(e.run_settings)
    THEN IF Truthy(replicas)
         THEN {build_replicas(e, replicas.n, 0)}
         ELSE {[raised |-> Error("SmartSimError",
                   <<"Ensembles without 'params' or 'replicas' argument to expand into members cannot be given run settings">>),
                obj |-> e]}
    ELSE IF ~Truthy(e.batch_settings)
    THEN {[raised |-> Error("SmartSimError",
              <<"Ensemble must be provided batch settings or run settings">>),
           obj |-> e]}
    ELSE {[raised |-> NoError, obj |-> e]}

\* Ensemble._initialize_entities on object e: the possible outcomes
Ensemble_initialize_entities(e, perm_strat, replicas) ==
    LET s == set_strategy(perm_strat)
    IN  IF s.raised # NoError THEN {[raised |-> s.raised, obj |-> e]}
        ELSE IF Truthy(e.params)
        THEN initialize_with_params(e, s.strategy)
        ELSE initialize_without_params(e, replicas)

\* Ensemble(name, params, batch_settings, run_settings, perm_strat, replicas=, n_models=)
Ensemble_init(name, params, batch_settings, run_settings, perm_strat, replicas) ==
    /\ ens.status = "none"
    /\ LET args == [name |-> name, params |-> params, batch_settings |-> batch_settings,
                    run_settings |-> run_settings, perm_strat |-> perm_strat,
                    replicas |-> replicas]
           e0 == [ status |-> "constructing", name |-> name, path |-> EnsPath,
                   params |-> init_default(PyDict(<<>>), params),
                   key_prefixing_enabled |-> TRUE,
                   batch_settings |-> init_default(PyDict(<<>>), batch_settings),
                   run_settings |-> init_default(PyDict(<<>>), run_settings),
                   entities |-> <<>> ]
       IN  \E r \in Ensemble_initialize_entities(e0, perm_strat, replicas) :
               /\ ens' = [r.obj EXCEPT
                             !.status = IF r.raised = NoError THEN "ok" ELSE "raised"]
               /\ ecall' = [op |-> "__init__", args |-> args, raised |-> r.raised]
    /\ UNCHANGED <<orc, call, ncalls, necalls>>

CanCallEns == ens.status = "ok" /\ necalls < MaxEnsCalls

\* the arguments add_model is called with: a Model built by the caller with the
\* run settings template, key prefixing left off or enabled, or a non-Model
AddArgs ==
    LET built == {NewModel(n, p, "", [type |-> "RunSettings", exe |-> "python"]) :
                      n \in AddNames, p \in AddParams}
    IN  built \cup {Model_enable_key_prefixing(m) : m \in built} \cup NonModels

add_model(model) ==
    /\ CanCallEns
    /\ LET r == add_model_on(ens, model)
       IN  /\ ens' = r.obj
           /\ ecall' = [op |-> "add_model", args |-> [model |-> model],
                        raised |-> r.raised]
    /\ necalls' = necalls + 1
    /\ UNCHANGED <<orc, call, ncalls>>

enable_key_prefixing ==
    /\ CanCallEns
    /\ ens' = [ens EXCEPT !.entities =
                   [i \in 1..Len(ens.entities) |->
                       Model_enable_key_prefixing(ens.entities[i])]]
    /\ ecall' = [op |-> "enable_key_prefixing", args |-> [none |-> TRUE],
                 raised |-> NoError]
    /\ necalls' = necalls + 1
    /\ UNCHANGED <<orc, call, ncalls>>

\* the loop of register_incoming_entity from the i-th model of e onwards
RECURSIVE register_from(_, _, _)
register_from(e, i, incoming_entity) ==
    IF i > Len(e.entities) THEN [raised |-> NoError, obj |-> e]
    ELSE LET r == Model_register_incoming_entity(e.entities[i], incoming_entity)
         IN  IF r.raised # NoError THEN [raised |-> r.raised, obj |-> e]
             ELSE register_from([e EXCEPT !.entities[i] = r.model], i + 1,
                                incoming_entity)

register_incoming_entity(incoming_entity) ==
    /\ CanCallEns
    /\ LET r == register_from(ens, 1, incoming_entity)
       IN  /\ ens' = r.obj
           /\ ecall' = [op |-> "register_incoming_entity",
                        args |-> [incoming_entity |-> incoming_entity],
                        raised |-> r.raised]
    /\ necalls' = necalls + 1
    /\ UNCHANGED <<orc, call, ncalls>>

\* mutant: any() instead of all()
Mut_query_key_prefixing_any(e) ==
    \E i \in 1..Len(e.entities) : Model_query_key_prefixing(e.entities[i])

\* the value query_key_prefixing returns on object e
query_key_prefixing_on(e) ==
    \A i \in 1..Len(e.entities) : Model_query_key_prefixing(e.entities[i])

query_key_prefixing ==
    /\ CanCallEns
    /\ ens' = ens
    /\ ecall' = [op |-> "query_key_prefixing", args |-> [none |-> TRUE],
                 raised |-> NoError, result |-> query_key_prefixing_on(ens)]
    /\ necalls' = necalls + 1
    /\ UNCHANGED <<orc, call, ncalls>>

-----------------------------------------------------------------------------

NoCall == [op |-> "none", args |-> [none |-> TRUE], raised |-> NoError]

Init ==
    /\ orc = NoOrchestrator
    /\ call = NoCall
    /\ ncalls = 0
    /\ ens = NoEnsemble
    /\ ecall = NoCall
    /\ necalls = 0

NextOrc ==
    \/ /\ orc.status = "none"
       /\ \E port \in Ports, db_nodes \in NodeCounts, batch_flag \in BOOLEAN,
             hosts \in HostArgs, run_command \in RunCommands, time \in Times,
             run_args \in RunArgsArgs :
               PBSOrchestrator_init(port, db_nodes, batch_flag, hosts, run_command, time,
                                    run_args)
    \/ \E node \in 1..MaxNodes, key \in RunArgKeys, value \in RunArgValues :
           set_run_arg(node, key, value)
    \/ \E host_list \in HostArgs : set_hosts(host_list)
    \/ \E walltime \in Walltimes : set_walltime(walltime)
    \/ \E arg \in BatchArgNames, value \in BatchArgValues : set_batch_arg(arg, value)
    \/ \E num_cpus \in CpuCounts : set_cpus(num_cpus)

SpecOrc == Init /\ [][NextOrc]_vars

NextEns ==
    /\ ens.status = "none"
    /\ \E params \in ParamArgs, batch_settings \in BatchSettingsArgs,
          run_settings \in RunSettingsArgs, perm_strat \in StrategyArgs,
          replicas \in ReplicaArgs :
            Ensemble_init(EnsName, params, batch_settings, run_settings, perm_strat,
                          replicas)

SpecEns == Init /\ [][NextEns]_vars

NextEnsOps ==
    \/ /\ ens.status = "none"
       /\ \E params \in OpsParamArgs, batch_settings \in BatchSettingsArgs,
             run_settings \in RunSettingsArgs, perm_strat \in OpsStrategyArgs,
             replicas \in OpsReplicaArgs :
               Ensemble_init(EnsName, params, batch_settings, run_settings, perm_strat,
                             replicas)
    \/ \E model \in AddArgs : add_model(model)
    \/ \E incoming_entity \in IncomingEntities :
           register_incoming_entity(incoming_entity)
    \/ enable_key_prefixing
    \/ query_key_prefixing

SpecEnsOps == Init /\ [][NextEnsOps]_vars

-----------------------------------------------------------------------------
(* Properties of PBSOrchestrator, checked under SpecOrc *)

SizeTwoError ==
    Error("SSUnsupportedError", <<"PBSOrchestrator does not support clusters of size 2">>)

HostsRequiredError ==
    Error("SmartSimError",
          <<"hosts argument is required when launching PBSOrchestrator with OpenMPI">>)

BaseExeArgs(port) == <<"db_conf", "ai_module", "ip_module", "--port", ToString(port)>>

\* the value stored under key k in an insertion-ordered list of pairs
DictGet(pairs, k) == pairs[CHOOSE i \in 1..Len(pairs) : pairs[i][1] = k][2]
DictHas(pairs, k) == \E i \in 1..Len(pairs) : pairs[i][1] = k

\* a host-list argument the documentation of set_hosts accepts
ValidHostArg(a) ==
    \/ a.type = "str"
    \/ /\ a.type = "list"
       /\ \A i \in 1..Len(a.items) : a.items[i].type = "str"

\* the host list a valid argument stands for
HostsOf(a) == IF a.type = "str" THEN <<PyStr(strip(a.s))>> ELSE a.items

\* the step is a call of operation op on the constructed orchestrator
OrcCalled(op) == orc.status = "ok" /\ ncalls' = ncalls + 1 /\ call'.op = op

\* C1: composing with db_nodes = 2 always raises the "clusters of size 2"
\* SSUnsupportedError, whatever the run command, batch flag and hosts are; no DBNode
\* has been appended and self.ports has not been recorded.
C1_SizeTwoRejected ==
    (call.op = "__init__" /\ call.args.db_nodes = 2) =>
        /\ call.raised = SizeTwoError
        /\ orc.status = "raised"
        /\ orc.entities = <<>>
        /\ orc.ports = <<>>

C1_Witness ==
    /\ call.op = "__init__"
    /\ call.args.db_nodes = 2
    /\ call.args.run_command = "srun"
    /\ call.args.batch
    /\ Truthy(call.args.hosts)
    /\ call.raised = SizeTwoError

\* C2 as stated: with mpirun and no hosts, composition fails while the node sequence
\* is still empty and no batch settings have been built.
C2_Original ==
    (call.op = "__init__" /\ call.args.run_command = "mpirun"
        /\ ~Truthy(call.args.hosts)) =>
        /\ call.raised # NoError
        /\ orc.entities = <<>>
        /\ orc.batch_settings = PyNone

\* C2 amended: with mpirun and no hosts, composition fails and no topology is
\* returned; for db_nodes = 2 it is the size-2 error, raised with no node built;
\* otherwise the hosts-required error is raised only after all db_nodes DBNodes have
\* been constructed, the port recorded and (in batch mode) the batch settings built.
C2_HostsRequiredAfterBuild ==
    (call.op = "__init__" /\ call.args.run_command = "mpirun"
        /\ ~Truthy(call.args.hosts)) =>
        /\ orc.status = "raised"
        /\ IF call.args.db_nodes = 2
           THEN /\ call.raised = SizeTwoError
                /\ orc.entities = <<>>
                /\ orc.batch_settings = PyNone
           ELSE /\ call.raised = HostsRequiredError
                /\ Len(orc.entities) = call.args.db_nodes
                /\ orc.ports = <<call.args.port>>
                /\ (call.args.batch <=> orc.batch_settings # PyNone)
                /\ \A i \in 1..Len(orc.entities) : orc.entities[i].host = PyNone

C2_Witness ==
    /\ call.op = "__init__"
    /\ call.args.run_command = "mpirun"
    /\ call.args.hosts = PyList(<<>>)
    /\ call.args.batch
    /\ call.raised = HostsRequiredError
    /\ Len(orc.entities) = 3
    /\ orc.batch_settings # PyNone

\* C3: a successfully composed topology has db_nodes nodes; with db_nodes >= 3 every
\* node's arguments are the base arguments followed by the cluster arguments of that
\* node's own name "orchestrator_<index>" and the port; with fewer nodes the
\* arguments are the base arguments alone.
C3_ClusterArgs ==
    /\ (call.op = "__init__" /\ call.raised = NoError) =>
           /\ Len(orc.entities) = call.args.db_nodes
           /\ orc.ports = <<call.args.port>>
    /\ orc.status = "ok" =>
           \A i \in 1..Len(orc.entities) :
               LET node == orc.entities[i]
                   port == orc.ports[1]
               IN  /\ node.name = "orchestrator_" \o ToString(i - 1)
                   /\ node.ports = <<port>>
                   /\ IF Len(orc.entities) >= 3
                      THEN node.run_settings.exe_args =
                               BaseExeArgs(port) \o
                                   << "--cluster-enabled yes", "--cluster-config-file",
                                      "nodes-" \o node.name \o "-" \o ToString(port)
                                          \o ".conf" >>
                      ELSE /\ node.run_settings.exe_args = BaseExeArgs(port)
                           /\ \A j \in 1..Len(node.run_settings.exe_args) :
                                  node.run_settings.exe_args[j] # "--cluster-enabled yes"

C3_Witness ==
    /\ call.op = "__init__"
    /\ call.raised = NoError
    /\ call.args.db_nodes = 3
    /\ call.args.run_command = "mpirun"
    /\ Len(orc.entities[3].run_settings.exe_args) = 8

\* C4: after set_hosts has paired hosts with nodes (called directly or by the
\* constructor), every paired node has its own host set; its launch settings' host
\* list is [host], except for an aprun node in batch mode, whose host list stays
\* unset; in batch mode the batch settings hold the whole list, for both families.
C4_HostAssignment ==
    (/\ call.raised = NoError
     /\ \/ call.op = "set_hosts"
        \/ call.op = "__init__" /\ Truthy(call.args.hosts)) =>
        LET hl == HostsOf(IF call.op = "set_hosts" THEN call.args.host_list
                          ELSE call.args.hosts)
        IN  /\ \A i \in 1..Min(Len(hl), Len(orc.entities)) :
                   LET node == orc.entities[i]
                   IN  /\ node.host = hl[i]
                       /\ IF node.run_settings.family = "aprun" /\ orc.batch
                          THEN node.run_settings.hostlist = PyNone
                          ELSE node.run_settings.hostlist = PyList(<<hl[i]>>)
            /\ orc.batch => orc.batch_settings.hostlist = PyList(hl)

C4_Witness ==
    /\ call.op = "set_hosts"
    /\ call.raised = NoError
    /\ orc.batch
    /\ Len(orc.entities) = 3
    /\ orc.entities[1].run_settings.family = "aprun"
    /\ orc.entities[2].host = PyStr(HostN2)
    /\ orc.entities[2].run_settings.hostlist = PyNone
    /\ orc.batch_settings.hostlist # PyNone

\* C5: set_hosts treats a single string as the one-element list of that string with
\* the whitespace around it (tabs and newlines too) stripped; a list of strings is
\* accepted; any other argument raises TypeError and changes no DBNode host, no
\* launch-settings host list and no batch-settings host list, whether set_hosts is
\* called directly or by the constructor.
C5_Step ==
    /\ OrcCalled("set_hosts") =>
           LET a == call'.args.host_list
           IN  IF ValidHostArg(a)
               THEN /\ call'.raised = NoError
                    /\ a.type = "str" =>
                           /\ orc' = set_hosts_on(orc, PyList(<<PyStr(strip(a.s))>>)).obj
                           /\ \A i \in 1..Len(orc.entities) :
                                  orc'.entities[i].host =
                                      IF i = 1 THEN PyStr(strip(a.s))
                                      ELSE orc.entities[i].host
                           /\ orc.batch =>
                                  orc'.batch_settings.hostlist =
                                      PyList(<<PyStr(strip(a.s))>>)
                           /\ a.s = HostN1Padded =>
                                  orc'.entities[1].host = PyStr(HostN1)
               ELSE /\ call'.raised.type = "TypeError"
                    /\ orc' = orc
    /\ (/\ orc.status = "none"
        /\ call'.op = "__init__"
        /\ call'.args.db_nodes # 2
        /\ call'.args.run_command # "srun"
        /\ Truthy(call'.args.hosts)
        /\ ~ValidHostArg(call'.args.hosts)) =>
           /\ call'.raised.type = "TypeError"
           /\ \A i \in 1..Len(orc'.entities) :
                  /\ orc'.entities[i].host = PyNone
                  /\ orc'.entities[i].run_settings.hostlist = PyNone
           /\ orc'.batch => orc'.batch_settings.hostlist = PyNone

C5_HostValidation == [][C5_Step]_vars

C5_Witness ==
    /\ call.op = "set_hosts"
    /\ call.raised.type = "TypeError"
    /\ call.args.host_list = PyList(<<PyStr(HostN1), PyInt(5)>>)
    /\ orc.batch
    /\ Len(orc.entities) = 3

\* C6: without batch mode set_walltime and set_batch_arg raise SmartSimError and
\* leave the orchestrator as it was, batch settings absent; with batch mode
\* set_walltime stores the walltime in the batch settings and set_batch_arg stores
\* exactly the given key and value in batch_args, nothing else changing.
C6_Step ==
    /\ OrcCalled("set_walltime") =>
           IF ~orc.batch
           THEN /\ call'.raised.type = "SmartSimError"
                /\ orc' = orc
                /\ orc'.batch_settings = PyNone
           ELSE /\ call'.raised = NoError
                /\ orc'.batch_settings.time = PyStr(call'.args.walltime)
                /\ orc' = [orc EXCEPT !.batch_settings.time = PyStr(call'.args.walltime)]
    /\ OrcCalled("set_batch_arg") =>
           IF ~orc.batch
           THEN /\ call'.raised.type = "SmartSimError"
                /\ orc' = orc
                /\ orc'.batch_settings = PyNone
           ELSE /\ call'.raised = NoError
                /\ DictHas(orc'.batch_settings.batch_args, call'.args.arg)
                /\ DictGet(orc'.batch_settings.batch_args, call'.args.arg)
                       = call'.args.value
                /\ \A k \in BatchArgNames \ {call'.args.arg} :
                       /\ DictHas(orc'.batch_settings.batch_args, k)
                              <=> DictHas(orc.batch_settings.batch_args, k)
                       /\ DictHas(orc.batch_settings.batch_args, k) =>
                              DictGet(orc'.batch_settings.batch_args, k)
                                  = DictGet(orc.batch_settings.batch_args, k)
                /\ [orc' EXCEPT !.batch_settings.batch_args = <<>>]
                       = [orc EXCEPT !.batch_settings.batch_args = <<>>]

C6_BatchOnlyMutators == [][C6_Step]_vars

C6_Witness ==
    /\ call.op = "set_walltime"
    /\ call.raised.type = "SmartSimError"
    /\ ~orc.batch
    /\ orc.batch_settings = PyNone
    /\ Len(orc.entities) = 3

\* the other nodes of the topology
Siblings(node) == (1..Len(orc.entities)) \ {node}

\* C13 as stated, for a composed topology: a write to the launch settings of one
\* DBNode (here to its run-args container) leaves the launch settings of every
\* sibling node unchanged, whether or not the caller supplied run_args.
C13_Step ==
    OrcCalled("set_run_arg") =>
        \A j \in Siblings(call'.args.node) :
            orc'.entities[j].run_settings = orc.entities[j].run_settings

C13_Original == [][C13_Step]_vars

\* what the code does: without a run_args keyword every node has a dict of its own
\* and the write stays in the node written to; with one, all nodes hold the caller's
\* dict and the write shows in every node and in the caller's dict.
C13_SharedStep ==
    OrcCalled("set_run_arg") =>
        LET node == call'.args.node
            written(d) == [d EXCEPT !.pairs = DictSet(@, call'.args.key, call'.args.value)]
        IN  /\ orc'.entities[node].run_settings.run_args
                   = written(orc.entities[node].run_settings.run_args)
            /\ \A j \in Siblings(node) :
                   orc'.entities[j].run_settings.run_args =
                       IF orc.run_args = Absent
                       THEN orc.entities[j].run_settings.run_args
                       ELSE written(orc.entities[j].run_settings.run_args)
            /\ orc.run_args # Absent => orc'.run_args = written(orc.run_args)

C13_SharedRunArgs == [][C13_SharedStep]_vars

\* C16: set_hosts pairs hosts with nodes by position and never compares lengths:
\* for a list of k strings on a topology of n nodes no error is raised, also when
\* k # n; node i gets host host_list[i] for every i < min(k, n); the nodes from index
\* k on are left exactly as they were, host and per-node host list included; a host
\* from index n on is given to no node; in batch mode the batch settings get the whole
\* k-element list. The same holds when the constructor calls set_hosts.
C16_Step ==
    /\ (OrcCalled("set_hosts") /\ IsStrList(call'.args.host_list)) =>
           LET hl == call'.args.host_list.items
               k == Len(hl)
               n == Len(orc.entities)
           IN  /\ call'.raised = NoError
               /\ Len(orc'.entities) = n
               /\ \A i \in 1..n :
                      IF i <= k
                      THEN /\ orc'.entities[i].host = hl[i]
                           /\ [orc'.entities[i] EXCEPT !.host = PyNone,
                                   !.run_settings.hostlist = PyNone]
                                  = [orc.entities[i] EXCEPT !.host = PyNone,
                                        !.run_settings.hostlist = PyNone]
                      ELSE orc'.entities[i] = orc.entities[i]
               /\ \A j \in (n + 1)..k : \A i \in 1..n :
                      orc'.entities[i].host = hl[j] =>
                          (hl[i] = hl[j] \/ orc.entities[i].host = hl[j])
               /\ orc.batch => orc'.batch_settings.hostlist = PyList(hl)
               /\ ~orc.batch => orc'.batch_settings = PyNone
    /\ (/\ orc.status = "none"
        /\ call'.op = "__init__"
        /\ call'.args.db_nodes # 2
        /\ call'.args.run_command \in {"aprun", "mpirun"}
        /\ IsStrList(call'.args.hosts)
        /\ Truthy(call'.args.hosts)) =>
           LET hl == call'.args.hosts.items
               k == Len(hl)
               n == call'.args.db_nodes
           IN  /\ call'.raised = NoError
               /\ Len(orc'.entities) = n
               /\ \A i \in 1..n :
                      IF i <= k
                      THEN orc'.entities[i].host = hl[i]
                      ELSE /\ orc'.entities[i].host = PyNone
                           /\ orc'.entities[i].run_settings.hostlist = PyNone
               /\ orc'.batch => orc'.batch_settings.hostlist = PyList(hl)

C16_NoLengthCheck == [][C16_Step]_vars

C16_Witness ==
    /\ call.op = "set_hosts"
    /\ call.raised = NoError
    /\ call.args.host_list = PyList(<<PyStr(HostN2), PyStr(HostN1)>>)
    /\ Len(orc.entities) = 1
    /\ orc.entities[1].host = PyStr(HostN2)
    /\ orc.batch
    /\ orc.batch_settings.hostlist = call.args.host_list

Composed == call.op = "__init__"

SupportedCommands == {"aprun", "mpirun"}

\* C15 as stated: every node of a composed topology has tasks = 1 and
\* tasks_per_node = 1 in its launch settings, for aprun and mpirun alike; any other
\* run command raises SSUnsupportedError.
C15_Original ==
    /\ orc.status = "ok" =>
           \A i \in 1..Len(orc.entities) :
               /\ orc.entities[i].run_settings.tasks = PyInt(1)
               /\ orc.entities[i].run_settings.tasks_per_node = PyInt(1)
    /\ (Composed /\ call.args.run_command \notin SupportedCommands) =>
           call.raised.type = "SSUnsupportedError"

\* C15 amended: every node built by the composition has tasks = 1 in its launch
\* settings; an aprun node also has tasks_per_node = 1, while for an mpirun node the
\* composer sets no tasks_per_node; the settings' family is the run command; any
\* other run command raises SSUnsupportedError with no node built: the size-2 error
\* for db_nodes = 2, else the error naming the rejected launch binary.
C15_TaskPolicy ==
    /\ \A i \in 1..Len(orc.entities) :
           LET rs == orc.entities[i].run_settings
           IN  /\ rs.family = orc.run_command
               /\ rs.tasks = PyInt(1)
               /\ rs.tasks_per_node = IF rs.family = "aprun" THEN PyInt(1) ELSE PyNone
    /\ (Composed /\ call.args.run_command \in SupportedCommands
            /\ call.args.db_nodes # 2) =>
           Len(orc.entities) = call.args.db_nodes
    /\ (Composed /\ call.args.run_command \notin SupportedCommands) =>
           /\ orc.status = "raised"
           /\ orc.entities = <<>>
           /\ call.raised =
                  IF call.args.db_nodes = 2 THEN SizeTwoError
                  ELSE Error("SSUnsupportedError",
                             <<"PBSOrchestrator does not support", call.args.run_command,
                               "as a launch binary">>)

C15_Witness ==
    /\ Composed
    /\ call.args.run_command = "mpirun"
    /\ call.raised = NoError
    /\ Len(orc.entities) = 3
    /\ orc.entities[3].run_settings.family = "mpirun"
    /\ orc.entities[3].run_settings.tasks = PyInt(1)
    /\ orc.entities[3].run_settings.tasks_per_node = PyNone

-----------------------------------------------------------------------------
(* Properties of Ensemble, checked under SpecEns *)

EnsComposed == ecall.op = "__init__"

HasParams == Truthy(ecall.args.params)
HasRunSettings == ecall.args.run_settings # PyNone
HasBatchSettings == ecall.args.batch_settings # PyNone

BuiltinNames == {"all_perm", "step", "random"}

\* the strategy choice is a recognized name or a callable
Resolvable(perm_strat) ==
    perm_strat.kind = "callable" \/ perm_strat.name \in BuiltinNames

\* every parameter value is a list, an int or a str
ParamsValid ==
    \A i \in 1..Len(ecall.args.params.pairs) :
        ecall.args.params.pairs[i][2].type \in {"list", "int", "str"}

\* what the resolved strategy may return for the parameters given
StrategyReturns ==
    LET p == read_model_parameters([params |-> ecall.args.params])
    IN  StrategyOutcomes(set_strategy(ecall.args.perm_strat).strategy, p.names, p.values)

IsAssignmentList(v) ==
    /\ v.type = "list"
    /\ \A i \in 1..Len(v.items) : v.items[i].type = "dict"

\* one unit per assignment, in order, carrying the assignment
UnitsMatch(items) ==
    /\ Len(ens.entities) = Len(items)
    /\ \A i \in 1..Len(items) : ens.entities[i].params = items[i]

Mentions(msg, word) == \E i \in 1..Len(msg) : msg[i] = word

\* C7 as stated: the decision table decides the outcome for every strategy choice
\* (read for valid parameter values, a strategy that returns a list of mappings and
\* a positive replica count, where the rows' outcomes have a meaning).
C7_Original ==
    EnsComposed =>
        IF HasParams /\ ~HasRunSettings
        THEN ecall.raised.type = "SmartSimError"
        ELSE IF HasParams
        THEN IF ~Resolvable(ecall.args.perm_strat)
             THEN ecall.raised = NoError
             ELSE (/\ ParamsValid
                   /\ \A r \in StrategyReturns :
                          r.raised = NoError /\ IsAssignmentList(r.value)) =>
                      /\ ecall.raised = NoError
                      /\ \E r \in StrategyReturns : UnitsMatch(r.value.items)
        ELSE IF HasRunSettings /\ ecall.args.replicas # PyNone
        THEN ecall.args.replicas.n > 0 =>
                 /\ ecall.raised = NoError
                 /\ Len(ens.entities) = ecall.args.replicas.n
        ELSE IF HasRunSettings
        THEN ecall.raised.type = "SmartSimError"
        ELSE IF ~HasBatchSettings
        THEN ecall.raised.type = "SmartSimError"
        ELSE /\ ecall.raised = NoError
             /\ ens.entities = <<>>

\* C7 amended: an unrecognized, non-callable strategy choice fails first with
\* SSUnsupportedError in every row; otherwise the table decides: parameters without
\* run settings fail with SmartSimError; parameters with run settings yield one unit
\* per assignment when the parameter values are valid and the strategy returns a list
\* of mappings, and fail otherwise; no parameters, run settings and a non-zero
\* replica count yield exactly that many units; no parameters, run settings and a
\* replica count absent or zero fail with SmartSimError; nothing at all fails with
\* SmartSimError; batch settings alone succeed with zero units.
C7_DecisionTable ==
    EnsComposed =>
        IF ~Resolvable(ecall.args.perm_strat)
        THEN ecall.raised.type = "SSUnsupportedError"
        ELSE IF HasParams /\ ~HasRunSettings
        THEN ecall.raised.type = "SmartSimError"
        ELSE IF HasParams
        THEN IF ~ParamsValid
             THEN ecall.raised.type = "TypeError"
             ELSE \E r \in StrategyReturns :
                      IF r.raised = NoError /\ IsAssignmentList(r.value)
                      THEN ecall.raised = NoError /\ UnitsMatch(r.value.items)
                      ELSE ecall.raised # NoError
        ELSE IF HasRunSettings /\ Truthy(ecall.args.replicas)
        THEN /\ ecall.raised = NoError
             /\ Len(ens.entities) = ecall.args.replicas.n
        ELSE IF HasRunSettings
        THEN ecall.raised.type = "SmartSimError"
        ELSE IF ~HasBatchSettings
        THEN ecall.raised.type = "SmartSimError"
        ELSE /\ ecall.raised = NoError
             /\ ens.entities = <<>>
             /\ ens.status = "ok"

C7_Witness ==
    /\ EnsComposed
    /\ ~HasParams
    /\ ~HasRunSettings
    /\ HasBatchSettings
    /\ ecall.args.perm_strat.kind = "callable"
    /\ ecall.raised = NoError
    /\ ens.status = "ok"
    /\ ens.entities = <<>>

\* C8: a successful composition names unit i (0-based) "<name>_<i>" and enables key
\* prefixing on it; with parameters the units carry the assignments the strategy
\* returned, one per assignment in order (for a user callable: its result list; for
\* all_perm over a single key: the elements of that key's list in order); with
\* replicas there are replicas units with empty assignments.
C8_UnitsFollowAssignments ==
    (EnsComposed /\ ecall.raised = NoError) =>
        /\ \A i \in 1..Len(ens.entities) :
               /\ ens.entities[i].name = ecall.args.name \o "_" \o ToString(i - 1)
               /\ ens.entities[i].key_prefixing
        /\ HasParams =>
               /\ \E r \in StrategyReturns : r.raised = NoError /\ UnitsMatch(r.value.items)
               /\ ecall.args.perm_strat.kind = "callable" =>
                      UnitsMatch(ecall.args.perm_strat.result.items)
               /\ (/\ ecall.args.perm_strat.name = "all_perm"
                   /\ Len(ecall.args.params.pairs) = 1
                   /\ ecall.args.params.pairs[1][2].type = "list") =>
                      UnitsMatch([i \in 1..Len(ecall.args.params.pairs[1][2].items) |->
                          PyDict(<< <<ecall.args.params.pairs[1][1],
                                      ecall.args.params.pairs[1][2].items[i]>> >>)])
        /\ (~HasParams /\ HasRunSettings) =>
               UnitsMatch([i \in 1..ecall.args.replicas.n |-> PyDict(<<>>)])

C8_Witness ==
    /\ EnsComposed
    /\ ecall.raised = NoError
    /\ ecall.args.perm_strat.kind = "callable"
    /\ Len(ens.entities) = 2
    /\ ens.entities[1].params = PyDict(<< <<"h", PyInt(6)>> >>)
    /\ ens.entities[2].params = PyDict(<< <<"h", PyInt(5)>> >>)
    /\ ens.entities[2].name = "exp_1"
    /\ ens.entities[2].key_prefixing

\* the user callable was invoked and returned something that is not a list of mappings
BadUserResult ==
    /\ EnsComposed
    /\ ecall.args.perm_strat.kind = "callable"
    /\ HasParams
    /\ HasRunSettings
    /\ ParamsValid
    /\ ~IsAssignmentList(ecall.args.perm_strat.result)

\* 1-based position of the first element that is not a mapping (1 for a non-list)
FirstBad(v) ==
    IF v.type # "list" THEN 1
    ELSE CHOOSE i \in 1..Len(v.items) :
             /\ v.items[i].type # "dict"
             /\ \A j \in 1..(i - 1) : v.items[j].type = "dict"

\* C9 as stated: a bad strategy result raises UserStrategyError naming the strategy
\* and no unit has been created or appended when it is raised.
C9_Original ==
    BadUserResult =>
        /\ ecall.raised = Error("UserStrategyError", <<ecall.args.perm_strat.name>>)
        /\ ens.entities = <<>>

\* C9 amended: a bad strategy result raises UserStrategyError naming the strategy and
\* no ensemble is returned; when it is raised, exactly the units of the assignments
\* that precede the first non-mapping element have been created and appended (none
\* when the result is not a list or its first element is not a mapping).
C9_BadStrategyResult ==
    BadUserResult =>
        /\ ecall.raised = Error("UserStrategyError", <<ecall.args.perm_strat.name>>)
        /\ ens.status = "raised"
        /\ Len(ens.entities) = FirstBad(ecall.args.perm_strat.result) - 1
        /\ \A i \in 1..Len(ens.entities) :
               ens.entities[i].params = ecall.args.perm_strat.result.items[i]

C9_Witness ==
    /\ BadUserResult
    /\ ecall.args.perm_strat.result =
           PyList(<<PyDict(<< <<"h", PyInt(5)>> >>), PyList(<<>>)>>)
    /\ ecall.raised.type = "UserStrategyError"
    /\ Len(ens.entities) = 1

\* C10: an unrecognized, non-callable strategy choice raises SSUnsupportedError with
\* no unit created, and the message enumerates the three built-in strategy names.
\* The code does not meet it: the message holds the rejected choice only.
C10_Original ==
    (EnsComposed /\ ~Resolvable(ecall.args.perm_strat)) =>
        /\ ecall.raised.type = "SSUnsupportedError"
        /\ ens.entities = <<>>
        /\ \A n \in BuiltinNames : Mentions(ecall.raised.msg, n)

\* the state the failing composition ends in: the choice "stepped", which the
\* docstring of Ensemble lists as an option, is rejected with a message that names
\* none of the strategies that are accepted
C10_Witness ==
    /\ EnsComposed
    /\ ecall.args.perm_strat.name = "stepped"
    /\ ecall.args.params = PyDict(<<>>)
    /\ HasRunSettings
    /\ ecall.raised =
           Error("SSUnsupportedError",
                 <<"Permutation", "strategy", "given", "is", "not", "supported:",
                   "stepped">>)
    /\ \A n \in BuiltinNames : ~Mentions(ecall.raised.msg, n)

-----------------------------------------------------------------------------
(* Properties of the calls on a constructed Ensemble, checked under SpecEnsOps *)

\* the step is a call of operation op on the constructed ensemble
EnsCalled(op) == ens.status = "ok" /\ necalls' = necalls + 1 /\ ecall'.op = op

NameTaken(name) == \E i \in 1..Len(ens.entities) : ens.entities[i].name = name

\* C11: in any sequence of add_model calls, adding a Model whose name equals that of
\* a model already in the ensemble (even one with other parameters) raises
\* EntityExistsError and leaves the ensemble, so the length, order and contents of its
\* collection, unchanged; adding a non-Model raises TypeError and leaves the ensemble
\* unchanged; any other add appends the model at the end.
C11_Step ==
    EnsCalled("add_model") =>
        LET model == ecall'.args.model
        IN  IF model.type # "Model"
            THEN /\ ecall'.raised.type = "TypeError"
                 /\ ens' = ens
            ELSE IF NameTaken(model.name)
            THEN /\ ecall'.raised.type = "EntityExistsError"
                 /\ ens' = ens
            ELSE /\ ecall'.raised = NoError
                 /\ ens' = [ens EXCEPT !.entities = Append(@, model)]

C11_DuplicateRejected == [][C11_Step]_vars

C11_Witness ==
    /\ ecall.op = "add_model"
    /\ ecall.raised.type = "EntityExistsError"
    /\ necalls = 2
    /\ ecall.args.model.name = "model"
    /\ \E i \in 1..Len(ens.entities) :
           /\ ens.entities[i].name = "model"
           /\ ens.entities[i].params # ecall.args.model.params
    /\ Len(ens.entities) = 2

\* C12: query_key_prefixing returns true iff every model in the ensemble has its key
\* prefixing flag set and changes nothing; the answer is true right after a
\* successful composition, false once a model with the flag off has been added, and
\* true again right after enable_key_prefixing, which sets the flag on every model and
\* changes nothing else.
C12_Step ==
    /\ (ens.status = "none" /\ ecall'.op = "__init__" /\ ecall'.raised = NoError) =>
           /\ query_key_prefixing_on(ens')
           /\ \A i \in 1..Len(ens'.entities) : ens'.entities[i].key_prefixing
    /\ EnsCalled("query_key_prefixing") =>
           /\ ecall'.result <=> (\A i \in 1..Len(ens.entities) :
                                     ens.entities[i].key_prefixing)
           /\ ens' = ens
    /\ (/\ EnsCalled("add_model")
        /\ ecall'.raised = NoError
        /\ ~ecall'.args.model.key_prefixing) =>
           ~query_key_prefixing_on(ens')
    /\ EnsCalled("enable_key_prefixing") =>
           /\ query_key_prefixing_on(ens')
           /\ Len(ens'.entities) = Len(ens.entities)
           /\ \A i \in 1..Len(ens.entities) :
                  ens'.entities[i] = [ens.entities[i] EXCEPT !.key_prefixing = TRUE]
           /\ [ens' EXCEPT !.entities = <<>>] = [ens EXCEPT !.entities = <<>>]

C12_KeyPrefixing == [][C12_Step]_vars

C12_Witness ==
    /\ ecall.op = "query_key_prefixing"
    /\ ecall.result
    /\ necalls = 3
    /\ Len(ens.entities) = 3
    /\ ens.entities[3].name = "model"
    /\ ens.entities[3].params = PyDict(<< <<"z", PyInt(6)>> >>)

-----------------------------------------------------------------------------
(* Properties of the parameter validation of Ensemble, checked under SpecEns *)

\* the composition reaches _read_model_parameters
ParamsRead ==
    /\ EnsComposed
    /\ Resolvable(ecall.args.perm_strat)
    /\ HasParams
    /\ HasRunSettings

IsScalar(v) == v.type \in {"int", "str"}

\* a scalar or a non-empty list of scalars
ScalarOrScalars(v) ==
    \/ IsScalar(v)
    \/ /\ v.type = "list"
       /\ v.items # <<>>
       /\ \A i \in 1..Len(v.items) : IsScalar(v.items[i])

ParamPairs == ecall.args.params.pairs

\* the names and value lists the strategy is to be called with
HandedNames == [i \in 1..Len(ParamPairs) |-> ParamPairs[i][1]]
HandedValues ==
    [i \in 1..Len(ParamPairs) |->
        IF ParamPairs[i][2].type = "list" THEN ParamPairs[i][2]
        ELSE PyList(<<ParamPairs[i][2]>>)]

\* the composition ended as it does when the strategy is called with the names and
\* value lists above
OutcomeOfHanded ==
    \E r \in StrategyOutcomes(set_strategy(ecall.args.perm_strat).strategy,
                               HandedNames, HandedValues) :
        IF r.raised # NoError THEN ecall.raised = r.raised
        ELSE IF ~IsAssignmentList(r.value)
        THEN ecall.raised.type = "UserStrategyError"
        ELSE ecall.raised = NoError /\ UnitsMatch(r.value.items)

\* C14 as stated: a value that is neither a scalar nor a non-empty list of scalars is
\* rejected with TypeError and no unit is created; otherwise no TypeError is raised.
C14_Original ==
    ParamsRead =>
        IF \A i \in 1..Len(ParamPairs) : ScalarOrScalars(ParamPairs[i][2])
        THEN ecall.raised.type # "TypeError"
        ELSE /\ ecall.raised.type = "TypeError"
             /\ ens.entities = <<>>

\* C14 amended: validation runs before the strategy is called and looks at the type
\* of each value only: a value that is not a list, an int or a str raises TypeError,
\* the strategy is not called and no unit is created; otherwise the strategy is
\* called with the keys in input order and, per key, the list itself (in input
\* order, whatever its elements, even when empty) or the one-element list of the
\* scalar.
C14_ParamValidation ==
    ParamsRead =>
        IF \E i \in 1..Len(ParamPairs) : ParamPairs[i][2].type \notin {"list", "int", "str"}
        THEN /\ ecall.raised.type = "TypeError"
             /\ ens.entities = <<>>
             /\ ens.status = "raised"
        ELSE /\ ecall.raised.type # "TypeError"
             /\ OutcomeOfHanded

C14_Witness ==
    /\ ParamsRead
    /\ ecall.args.perm_strat.name = "all_perm"
    /\ ParamPairs = << <<"h", PyList(<<PyDict(<<>>)>>)>>, <<"g", PyInt(5)>> >>
    /\ ecall.raised = NoError
    /\ Len(ens.entities) = 1
    /\ ens.entities[1].params = PyDict(<< <<"h", PyDict(<<>>)>>, <<"g", PyInt(5)>> >>)

====
